---------------------------- MODULE Spec2Model ----------------------------
(***************************************************************************)
(* The species details dialog (view / edit / delete a species record and   *)
(* post / delete its comments) as a state machine.                          *)
(*                                                                         *)
(* One dialog component instance is modelled together with the comment     *)
(* cards it renders.  Every event handler is one action; every remote call *)
(* (supabase update / insert / delete) is issued by a handler, stays in     *)
(* flight in `pending`, and is resolved by a second action that runs the    *)
(* handler's continuation after its `await`.                                *)
(*                                                                         *)
(* Strings are sequences of one-character strings, null is the empty tuple *)
(* and a present nullable value v is the one-element tuple <<v>>.  A       *)
(* JavaScript number is the pair <<numerator, denominator>>.                *)
(***************************************************************************)
EXTENDS Integers, Sequences, FiniteSets, TLC

(***************************************************************************)
(* Bounds of the model.                                                    *)
(***************************************************************************)
\* adapter calls issued in one behaviour
MaxCalls == 2
\* field edits (keystrokes committed to a form) in one behaviour
MaxEdits == 1
\* leading / trailing blanks of the comment strings of SpecValidate
MaxPad == 2
\* how far past the length limit the comment strings of SpecValidate go
MaxOver == 2
\* comments in the answer of the record store to the comments query
MaxComments == 3

(***************************************************************************)
(* Values.                                                                 *)
(***************************************************************************)
Null == <<>>

Just(x) == <<x>>

IsNull(v) == v = <<>>

Val(v) == v[1]

Min(S) == CHOOSE x \in S : \A y \in S : x <= y

Max(S) == CHOOSE x \in S : \A y \in S : x >= y

Spaces(n) == [i \in 1..n |-> " "]

\* String.prototype.trim: the white space JavaScript strips
IsWhiteSpace(c) == c \in {" ", "\t", "\n"}

\* String.prototype.trim
trim(s) ==
    LET keep == {i \in 1..Len(s) : ~IsWhiteSpace(s[i])}
    IN  IF keep = {} THEN <<>> ELSE SubSeq(s, Min(keep), Max(keep))

\* String.prototype.slice(0, n)
slice0(s, n) == SubSeq(s, 1, IF Len(s) < n THEN Len(s) ELSE n)

(***************************************************************************)
(* JavaScript numbers <<numerator, denominator>>, denominator > 0.         *)
(***************************************************************************)
IsInteger(x) == x[1] % x[2] = 0

IsPositive(x) == x[1] > 0

AtLeast(x, n) == x[1] >= n * x[2]


\* ToNumber of a decimal text (the unary plus of `+event.target.value`):
\* an optional "-", digits, an optional "." and digits; the empty text is 0
DigitOf(c) ==
    CASE c = "0" -> 0 [] c = "1" -> 1 [] c = "2" -> 2 [] c = "3" -> 3
      [] c = "4" -> 4 [] c = "5" -> 5 [] c = "6" -> 6 [] c = "7" -> 7
      [] c = "8" -> 8 [] c = "9" -> 9

RECURSIVE DigitsValue(_)
DigitsValue(ds) ==
    IF ds = <<>> THEN 0
    ELSE 10 * DigitsValue(SubSeq(ds, 1, Len(ds) - 1)) + DigitOf(ds[Len(ds)])

RECURSIVE Pow10(_)
Pow10(k) == IF k = 0 THEN 1 ELSE 10 * Pow10(k - 1)

ToNumber(text) ==
    LET s    == trim(text)
        neg  == s # <<>> /\ s[1] = "-"
        body == IF neg THEN Tail(s) ELSE s
        dots == {i \in 1..Len(body) : body[i] = "."}
        ip   == IF dots = {} THEN body ELSE SubSeq(body, 1, Min(dots) - 1)
        fp   == IF dots = {} THEN <<>> ELSE SubSeq(body, Min(dots) + 1, Len(body))
        mag  == DigitsValue(ip) * Pow10(Len(fp)) + DigitsValue(fp)
    IN  <<IF neg THEN 0 - mag ELSE mag, Pow10(Len(fp))>>

(***************************************************************************)
(* Validation schemas (zod).  A parse result is                            *)
(*   [ok, issues, value]: value is <<output>> when ok and null otherwise.  *)
(***************************************************************************)
\* z.string().max(150) of the comment schema
MaxCommentLen == 150

MsgMin == "Comment must be at least 1 character."

MsgMax == "Comment must not be longer than 150 characters."

MsgBlank == "String cannot be empty or contain only whitespace"

\* commentFormSchema with the string trimmed before min and max look at it
commentFormSchemaTrimFirst(content) ==
    LET t == trim(content)
        issues == (IF Len(t) < 1 THEN {MsgMin} ELSE {})
                  \cup (IF Len(t) > MaxCommentLen THEN {MsgMax} ELSE {})
                  \cup (IF t = <<>> THEN {MsgBlank} ELSE {})
    IN  [ok |-> issues = {}, issues |-> issues,
         value |-> IF issues = {} THEN Just([content |-> t]) ELSE Null]

\* z.object({content: z.string().min(1).max(150).refine(trim # "").transform(trim)}):
\* min and max look at the string as typed; the refinement runs whatever they
\* found; the transform runs only when nothing was found
commentFormSchema(content) ==
    LET issues == (IF Len(content) < 1 THEN {MsgMin} ELSE {})
                  \cup (IF Len(content) > MaxCommentLen THEN {MsgMax} ELSE {})
                  \cup (IF trim(content) = <<>> THEN {MsgBlank} ELSE {})
    IN  [ok |-> issues = {}, issues |-> issues,
         value |-> IF issues = {} THEN Just([content |-> trim(content)]) ELSE Null]

\* z.enum([...])
kingdoms == {"Animalia", "Plantae", "Fungi", "Protista", "Archaea", "Bacteria"}

IsLetter(c) == c \in {"a", "b", "c", "d", "h", "p", "s", "t"}

\* z.string().url(): `new URL(s)` does not throw.  The URL parser strips the
\* blanks around s and wants a scheme, letters up to a ":"
IsUrl(s) ==
    LET t == trim(s)
        colons == {i \in 1..Len(t) : t[i] = ":"}
    IN  /\ colons # {}
        /\ Min(colons) > 1
        /\ \A j \in 1..(Min(colons) - 1) : IsLetter(t[j])

\* .transform((val) => (!val || val.trim() === "" ? null : val.trim()))
emptyToNull(v) ==
    IF IsNull(v) \/ Val(v) = <<>> \/ trim(Val(v)) = <<>> THEN Null
    ELSE Just(trim(Val(v)))

FieldNames ==
    {"scientific_name", "common_name", "kingdom", "total_population", "image",
     "description"}

\* speciesSchema: the fields that raise an issue, and the output
speciesSchema(raw) ==
    LET issues ==
            (IF Len(trim(raw.scientific_name)) < 1 THEN {"scientific_name"} ELSE {})
            \cup (IF raw.kingdom \notin kingdoms THEN {"kingdom"} ELSE {})
            \cup (IF /\ ~IsNull(raw.total_population)
                     /\ ~(/\ IsInteger(Val(raw.total_population))
                          /\ IsPositive(Val(raw.total_population))
                          /\ AtLeast(Val(raw.total_population), 1))
                  THEN {"total_population"} ELSE {})
            \cup (IF ~IsNull(raw.image) /\ ~IsUrl(Val(raw.image))
                  THEN {"image"} ELSE {})
        out == [scientific_name  |-> trim(trim(raw.scientific_name)),
                common_name      |-> emptyToNull(raw.common_name),
                kingdom          |-> raw.kingdom,
                total_population |-> raw.total_population,
                image            |-> emptyToNull(raw.image),
                description      |-> emptyToNull(raw.description)]
    IN  [ok |-> issues = {}, issues |-> issues,
         value |-> IF issues = {} THEN Just(out) ELSE Null]

(***************************************************************************)
(* The dialog.                                                             *)
(***************************************************************************)
VARIABLES
    component,      \* which dialog implementation the species card mounts
    userId,         \* prop: the signed-in user
    species,        \* prop: the species row shown
    comments,       \* prop: the comments of the species, as fetched
    open,           \* useState: the dialog is open
    isEditing,      \* useState: the dialog shows the edit form
    formValues,     \* speciesForm: the current field values
    formDefaults,   \* speciesForm: the default values (what reset() goes back to)
    commentInput,   \* commentForm: the content field
    pending,        \* adapter calls in flight
    nCalls,         \* adapter calls issued so far
    nEdits,         \* field edits so far
    last,           \* the handler that ran in the last step, and its inputs
    issued,         \* the adapter calls the last step issued
    toast,          \* the notification the last step emitted, or null
    refreshed,      \* whether the last step called router.refresh()
    session,        \* the session of the request for the species page, or null
    store,          \* what the record store answers to the queries of the page
    page,           \* the run of SpeciesList for the request and what it returned
    stale           \* the numbers of the calls issued before the dialog last
                    \* left the edit view, while pending and in the step that
                    \* resolves them

vars ==
    <<component, userId, species, comments, open, isEditing, formValues,
      formDefaults, commentInput, pending, nCalls, nEdits, last, issued, toast,
      refreshed, session, store, page, stale>>

\* the server render that handed the dialog its props
served == <<session, store, page>>

\* what the dialog is handed; it changes with a new render of the page only
props == <<component, userId, species, comments, served>>

Users == {"u1", "u2"}

\* the dialog with the ownership check, the delete button and the comments
\* (part_001), and the one of species-details-dialog.tsx
Components == {"details", "editOnly"}

SpeciesRows ==
    {[id |-> 7, author |-> "u1",
      scientific_name |-> <<"a">>, common_name |-> Just(<<"c">>),
      kingdom |-> "Animalia", total_population |-> Null,
      image |-> Null, description |-> Just(<<"d">>)]}

\* a created_at as the Date made of it reads in the viewer's time zone:
\* getMonth() (0 is January), getDate(), getHours(), getMinutes()
Date(month, date, hours, minutes) ==
    [month |-> month, date |-> date, hours |-> hours, minutes |-> minutes]

CommentRows ==
    <<[id |-> 2, created_at |-> Date(5, 2, 15, 45), content |-> <<"y", "o">>,
       author |-> "u2", species |-> 7],
      [id |-> 1, created_at |-> Date(0, 31, 0, 5), content |-> <<"h", "i">>,
       author |-> "u1", species |-> 7]>>

\* what the user can put into each control of the species form: the text of
\* an input, the item of the kingdom select
Typed ==
    [scientific_name  |-> {<<" ", "b", " ">>, <<>>},
     common_name      |-> {<<>>},
     kingdom          |-> {"Plantae"},
     total_population |-> {<<>>, <<"2">>},
     image            |-> {<<>>},
     description      |-> {<<" ", "d">>}]

\* the value a change of the control of field f to x hands to field.onChange:
\* the text of an input, +event.target.value for the population, the parsed
\* item for the kingdom
fromInput(f, x) ==
    CASE f = "total_population" -> Just(ToNumber(x))
      [] f = "kingdom"          -> x
      [] f = "scientific_name"  -> x
      [] OTHER                  -> Just(x)

\* the text an input of the species form shows: value ?? ""
IsEmptyInput(v) == IsNull(v) \/ Val(v) = <<>>

\* what the user can put into the comment field
TypedComments == {<<" ">>, <<" ", "a", " ">>}

\* the error messages the record store answers with
ErrorMessages == {"permission denied", "timeout"}

\* speciesDefaultValues
speciesDefaultValues(sp) ==
    [scientific_name  |-> sp.scientific_name,
     common_name      |-> sp.common_name,
     kingdom          |-> sp.kingdom,
     total_population |-> sp.total_population,
     image            |-> sp.image,
     description      |-> sp.description]

\* commentDefaultValues
commentDefaultValues == [content |-> <<>>]

Step(h, confirm, call, error) ==
    [h |-> h, confirm |-> confirm, call |-> call, error |-> error, input |-> Null]

\* a change event of the control of field f, carrying x
ChangeStep(f, x) ==
    [h |-> "onChange", confirm |-> FALSE, call |-> Null, error |-> Null,
     input |-> Just(<<f, x>>)]

Call(no, op, id, payload) ==
    [callNo |-> no, op |-> op, eq |-> id, payload |-> payload]

Toast(title, description, variant) ==
    [title |-> title, description |-> description, variant |-> variant]

\* the failure toast with a text of its own in place of error.message
ErrorToastOwnText(message) ==
    Just(Toast("Something went wrong.", <<"permission denied">>, "destructive"))

\* toast({title: "Something went wrong.", description: error.message,
\*        variant: "destructive"})
ErrorToast(message) ==
    Just(Toast("Something went wrong.", <<message>>, "destructive"))

(***************************************************************************)
(* The species page (SpeciesList, a server component).                     *)
(***************************************************************************)
\* a session of user u
Session(u) == [user |-> [id |-> u]]

\* the comments of a card without the filter on the species
commentsOfAll(commentsWithNames, id) ==
    IF IsNull(commentsWithNames) THEN <<>> ELSE Val(commentsWithNames)

\* commentsWithNames?.filter((comment) => comment.species == species.id)
\*     .map((filteredComment) => filteredComment) ?? []
commentsOf(commentsWithNames, id) ==
    IF IsNull(commentsWithNames) THEN <<>>
    ELSE LET matches(comment) == comment.species = id
         IN  SelectSeq(Val(commentsWithNames), matches)

\* species?.map((species) => <SpeciesCard key species comments userId />)
SpeciesCards(sessionId, data, commentsWithNames) ==
    IF IsNull(data) THEN <<>>
    ELSE [i \in 1..Len(Val(data)) |->
             [key      |-> Val(data)[i].id,
              species  |-> Val(data)[i],
              comments |-> commentsOf(commentsWithNames, Val(data)[i].id),
              userId   |-> sessionId]]

\* SpeciesList before it runs
PageStart ==
    [pc |-> "start", sessionId |-> Null, queries |-> <<>>, species |-> Null,
     commentsWithNames |-> Null, redirect |-> Null, cards |-> Null]

\* the render of the page that mounted the dialog: the signed-in user, the
\* species of the dialog and its comments
Served ==
    /\ session = Just(Session(userId))
    /\ store = [species |-> Just(<<species>>), comments |-> Just(comments)]
    /\ page = [PageStart EXCEPT
                  !.pc = "done", !.sessionId = Just(userId),
                  !.queries = <<"species", "comments">>,
                  !.species = store.species,
                  !.commentsWithNames = store.comments,
                  !.cards = Just(SpeciesCards(userId, store.species, store.comments))]
    /\ Val(page.cards)[1].species = species
    /\ Val(page.cards)[1].comments = comments

Init ==
    /\ component \in Components
    /\ userId \in Users
    /\ species \in SpeciesRows
    /\ comments = CommentRows
    /\ open = FALSE
    /\ isEditing = FALSE
    /\ formValues = speciesDefaultValues(species)
    /\ formDefaults = speciesDefaultValues(species)
    /\ commentInput = commentDefaultValues.content
    /\ pending = {}
    /\ stale = {}
    /\ nCalls = 0
    /\ nEdits = 0
    /\ last = Step("init", FALSE, Null, Null)
    /\ issued = {}
    /\ toast = Null
    /\ refreshed = FALSE
    /\ Served

\* what a handler that calls nothing, notifies nobody and refreshes nothing
\* leaves behind
Quiet == issued' = {} /\ toast' = Null /\ refreshed' = FALSE /\ UNCHANGED <<pending, nCalls>>

\* the edit view is on screen
EditView == open /\ isEditing

\* the details view is on screen
DetailsView == open /\ ~isEditing

\* a step that takes the dialog out of the edit view makes the calls it
\* leaves pending stale
Stale ==
    stale' = (stale \cap {c.callNo : c \in pending})
                 \cup (IF EditView /\ ~EditView' THEN {c.callNo : c \in pending'}
                       ELSE {})

\* handleOpenChange without its setIsEditing(false)
handleOpenChangeKeepsEditing(o) ==
    /\ o # open
    /\ open' = o
    /\ last' = Step("handleOpenChange", o, Null, Null)
    /\ Quiet
    /\ UNCHANGED <<props, isEditing, formValues, formDefaults, commentInput, nEdits>>
    /\ Stale

\* handleOpenChange: the trigger opens a closed dialog; escape, the close
\* button or a click outside closes an open one
handleOpenChange(o) ==
    /\ o # open
    /\ isEditing' = FALSE
    /\ open' = o
    /\ last' = Step("handleOpenChange", o, Null, Null)
    /\ Quiet
    /\ UNCHANGED <<props, formValues, formDefaults, commentInput, nEdits>>
    /\ Stale

\* {userId == species.author && <Button onClick={flipEditing}>}; the dialog of
\* species-details-dialog.tsx renders the button for every user
EditOffered ==
    /\ DetailsView
    /\ component = "details" => userId = species.author

\* flipEditing, from the "Edit Species" button
flipEditing ==
    /\ EditOffered
    /\ isEditing' = ~isEditing
    /\ last' = Step("flipEditing", FALSE, Null, Null)
    /\ Quiet
    /\ UNCHANGED <<props, open, formValues, formDefaults, commentInput, nEdits>>
    /\ Stale

\* the change event of the control of field f, with x in the control, and
\* the field.onChange it calls; an empty input has no text to clear
onChange(f, x) ==
    /\ EditView
    /\ nEdits < MaxEdits
    /\ fromInput(f, x) # formValues[f]
    /\ ~(f = "total_population" /\ x = <<>> /\ IsEmptyInput(formValues[f]))
    /\ formValues' = [formValues EXCEPT ![f] = fromInput(f, x)]
    /\ nEdits' = nEdits + 1
    /\ last' = ChangeStep(f, x)
    /\ Quiet
    /\ UNCHANGED <<props, open, isEditing, formDefaults, commentInput>>
    /\ Stale

\* the submit handing the update the whole row, id and author included
submitSpeciesWholeRow(no) ==
    LET parsed == speciesSchema(formValues)
    IN  IF parsed.ok
        THEN {Call(no, "species.update", Just(species.id),
                   Just([f \in DOMAIN species |->
                            IF f \in FieldNames THEN Val(parsed.value)[f]
                            ELSE species[f]]))}
        ELSE {}

\* speciesForm.handleSubmit(onSaveChanges): the resolver validates the current
\* values; onSaveChanges runs on the parsed output up to its await, which
\* issues supabase.from("species").update(input).eq("id", species.id)
submitSpecies(no) ==
    LET parsed == speciesSchema(formValues)
    IN  IF parsed.ok
        THEN {Call(no, "species.update", Just(species.id), parsed.value)}
        ELSE {}

\* what a handler that issues `calls` and awaits them leaves behind
Issue(calls) ==
    /\ nCalls + Cardinality(calls) <= MaxCalls
    /\ issued' = calls
    /\ pending' = pending \cup calls
    /\ nCalls' = nCalls + Cardinality(calls)
    /\ toast' = Null
    /\ refreshed' = FALSE

\* the "Save Changes" button (type="submit") of the edit form
ClickSave ==
    /\ EditView
    /\ Issue(submitSpecies(nCalls + 1))
    /\ last' = Step("ClickSave", FALSE, Null, Null)
    /\ UNCHANGED <<props, open, isEditing, formValues, formDefaults, commentInput,
                   nEdits>>
    /\ Stale

\* handleCancel, from the "Cancel" button (type="button"); `confirm` is the
\* answer to window.confirm
handleCancel(confirm) ==
    /\ EditView
    /\ isEditing' = IF confirm THEN ~isEditing ELSE isEditing
    /\ last' = Step("handleCancel", confirm, Null, Null)
    /\ Quiet
    /\ UNCHANGED <<props, open, formValues, formDefaults, commentInput, nEdits>>
    /\ Stale

\* handleDelete up to its await: supabase.from("species").delete().eq("id", ..)
deleteSpecies(no, confirm) ==
    IF confirm THEN {Call(no, "species.delete", Just(species.id), Null)} ELSE {}

\* the "Delete Species" button.  It stands inside the <form> and gives no
\* type, so it is a submit button: its click runs handleDelete and then
\* submits the form
ClickDeleteSpecies(confirm) ==
    /\ component = "details"
    /\ EditView
    /\ LET del == deleteSpecies(nCalls + 1, confirm)
       IN  Issue(del \cup submitSpecies(nCalls + Cardinality(del) + 1))
    /\ last' = Step("ClickDeleteSpecies", confirm, Null, Null)
    /\ UNCHANGED <<props, open, isEditing, formValues, formDefaults, commentInput,
                   nEdits>>
    /\ Stale

\* the results a call can resolve with: {error: null} or {error: {message}}
Errors == {Null} \cup {Just(m) : m \in ErrorMessages}

\* onSaveChanges without the early return on an error
onSaveChangesIgnoresError(c, error) ==
    /\ c \in pending
    /\ c.op = "species.update"
    /\ pending' = pending \ {c}
    /\ last' = Step("onSaveChanges", FALSE, Just(c), error)
    /\ issued' = {}
    /\ isEditing' = FALSE
    /\ formValues' = Val(c.payload)
    /\ formDefaults' = Val(c.payload)
    /\ refreshed' = TRUE
    /\ toast' = Just(Toast("Species Details Edited!",
                           <<"Successfully edited ",
                             Val(c.payload).scientific_name, ".">>,
                           "default"))
    /\ UNCHANGED <<props, open, commentInput, nCalls, nEdits>>
    /\ Stale

\* onSaveChanges without its speciesForm.reset(input)
onSaveChangesNoReset(c, error) ==
    /\ c \in pending
    /\ c.op = "species.update"
    /\ pending' = pending \ {c}
    /\ last' = Step("onSaveChanges", FALSE, Just(c), error)
    /\ issued' = {}
    /\ IF ~IsNull(error)
       THEN /\ toast' = ErrorToast(Val(error))
            /\ refreshed' = FALSE
            /\ UNCHANGED <<isEditing, formValues, formDefaults>>
       ELSE /\ isEditing' = FALSE
            /\ refreshed' = TRUE
            /\ toast' = Just(Toast("Species Details Edited!",
                                   <<"Successfully edited ",
                                     Val(c.payload).scientific_name, ".">>,
                                   "default"))
            /\ UNCHANGED <<formValues, formDefaults>>
    /\ UNCHANGED <<props, open, commentInput, nCalls, nEdits>>
    /\ Stale

\* onSaveChanges after its await, with setIsEditing(false) before the error
\* check
onSaveChangesLeavesOnError(c, error) ==
    /\ c \in pending
    /\ c.op = "species.update"
    /\ pending' = pending \ {c}
    /\ last' = Step("onSaveChanges", FALSE, Just(c), error)
    /\ issued' = {}
    /\ isEditing' = FALSE
    /\ IF ~IsNull(error)
       THEN /\ toast' = ErrorToast(Val(error))
            /\ refreshed' = FALSE
            /\ UNCHANGED <<formValues, formDefaults>>
       ELSE /\ formValues' = Val(c.payload)
            /\ formDefaults' = Val(c.payload)
            /\ refreshed' = TRUE
            /\ toast' = Just(Toast("Species Details Edited!",
                                   <<"Successfully edited ",
                                     Val(c.payload).scientific_name, ".">>,
                                   "default"))
    /\ UNCHANGED <<props, open, commentInput, nCalls, nEdits>>
    /\ Stale

\* onSaveChanges after its await
onSaveChanges(c, error) ==
    /\ c \in pending
    /\ c.op = "species.update"
    /\ pending' = pending \ {c}
    /\ last' = Step("onSaveChanges", FALSE, Just(c), error)
    /\ issued' = {}
    /\ IF ~IsNull(error)
       THEN /\ toast' = ErrorToast(Val(error))
            /\ refreshed' = FALSE
            /\ UNCHANGED <<isEditing, formValues, formDefaults>>
       ELSE /\ isEditing' = FALSE
            /\ formValues' = Val(c.payload)
            /\ formDefaults' = Val(c.payload)
            /\ refreshed' = TRUE
            /\ toast' = Just(Toast("Species Details Edited!",
                                   <<"Successfully edited ",
                                     Val(c.payload).scientific_name, ".">>,
                                   "default"))
    /\ UNCHANGED <<props, open, commentInput, nCalls, nEdits>>
    /\ Stale

\* handleDelete without its setOpen(false)
handleDeleteStaysOpen(c, error) ==
    /\ c \in pending
    /\ c.op = "species.delete"
    /\ pending' = pending \ {c}
    /\ last' = Step("handleDelete", TRUE, Just(c), error)
    /\ issued' = {}
    /\ IF ~IsNull(error)
       THEN /\ toast' = ErrorToast(Val(error))
            /\ refreshed' = FALSE
       ELSE /\ refreshed' = TRUE
            /\ toast' = Just(Toast("Species Deleted",
                                   <<"Successfully deleted ",
                                     species.scientific_name, ".">>,
                                   "default"))
    /\ UNCHANGED <<props, open, isEditing, formValues, formDefaults, commentInput,
                   nCalls, nEdits>>
    /\ Stale

\* handleDelete after its await, closing the dialog on an error as well
handleDeleteClosesOnError(c, error) ==
    /\ c \in pending
    /\ c.op = "species.delete"
    /\ pending' = pending \ {c}
    /\ last' = Step("handleDelete", TRUE, Just(c), error)
    /\ issued' = {}
    /\ open' = FALSE
    /\ IF ~IsNull(error)
       THEN /\ toast' = ErrorToast(Val(error))
            /\ refreshed' = FALSE
       ELSE /\ refreshed' = TRUE
            /\ toast' = Just(Toast("Species Deleted",
                                   <<"Successfully deleted ",
                                     species.scientific_name, ".">>,
                                   "default"))
    /\ UNCHANGED <<props, isEditing, formValues, formDefaults, commentInput,
                   nCalls, nEdits>>
    /\ Stale

\* handleDelete after its await
handleDelete(c, error) ==
    /\ c \in pending
    /\ c.op = "species.delete"
    /\ pending' = pending \ {c}
    /\ last' = Step("handleDelete", TRUE, Just(c), error)
    /\ issued' = {}
    /\ IF ~IsNull(error)
       THEN /\ toast' = ErrorToast(Val(error))
            /\ refreshed' = FALSE
            /\ UNCHANGED open
       ELSE /\ refreshed' = TRUE
            /\ open' = FALSE
            /\ toast' = Just(Toast("Species Deleted",
                                   <<"Successfully deleted ",
                                     species.scientific_name, ".">>,
                                   "default"))
    /\ UNCHANGED <<props, isEditing, formValues, formDefaults, commentInput,
                   nCalls, nEdits>>
    /\ Stale

\* field.onChange of the comment field
commentChange(v) ==
    /\ component = "details"
    /\ DetailsView
    /\ nEdits < MaxEdits
    /\ v # commentInput
    /\ commentInput' = v
    /\ nEdits' = nEdits + 1
    /\ last' = Step("commentChange", FALSE, Null, Null)
    /\ Quiet
    /\ UNCHANGED <<props, open, isEditing, formValues, formDefaults>>
    /\ Stale

\* commentForm.handleSubmit(onPost): the resolver validates the content; onPost
\* runs on the parsed output up to its await, which issues
\* supabase.from("comments").insert([{author, content, species}])
submitComment(no) ==
    LET parsed == commentFormSchema(commentInput)
    IN  IF parsed.ok
        THEN {Call(no, "comments.insert", Null,
                   Just([author  |-> userId,
                         content |-> Val(parsed.value).content,
                         species |-> species.id]))}
        ELSE {}

\* the "Post" button of the comment form
ClickPost ==
    /\ component = "details"
    /\ DetailsView
    /\ Issue(submitComment(nCalls + 1))
    /\ last' = Step("ClickPost", FALSE, Null, Null)
    /\ UNCHANGED <<props, open, isEditing, formValues, formDefaults, commentInput,
                   nEdits>>
    /\ Stale

\* content.slice(0, 25).trim() + (content.length > 25 ? "..." : "")
excerpt(content) ==
    <<trim(slice0(content, 25)), IF Len(content) > 25 THEN "..." ELSE "">>

\* onPost without its commentForm.reset(commentDefaultValues)
onPostNoReset(c, error) ==
    /\ c \in pending
    /\ c.op = "comments.insert"
    /\ pending' = pending \ {c}
    /\ last' = Step("onPost", FALSE, Just(c), error)
    /\ issued' = {}
    /\ IF ~IsNull(error)
       THEN /\ toast' = ErrorToast(Val(error))
            /\ refreshed' = FALSE
       ELSE /\ refreshed' = TRUE
            /\ toast' = Just(Toast("Comment Posted!",
                                   <<"Successfully commented \"">>
                                       \o excerpt(Val(c.payload).content)
                                       \o <<"\"">>,
                                   "default"))
    /\ UNCHANGED <<props, open, isEditing, formValues, formDefaults, commentInput,
                   nCalls, nEdits>>
    /\ Stale

\* onPost after its await
onPost(c, error) ==
    /\ c \in pending
    /\ c.op = "comments.insert"
    /\ pending' = pending \ {c}
    /\ last' = Step("onPost", FALSE, Just(c), error)
    /\ issued' = {}
    /\ IF ~IsNull(error)
       THEN /\ toast' = ErrorToast(Val(error))
            /\ refreshed' = FALSE
            /\ UNCHANGED commentInput
       ELSE /\ commentInput' = commentDefaultValues.content
            /\ refreshed' = TRUE
            /\ toast' = Just(Toast("Comment Posted!",
                                   <<"Successfully commented \"">>
                                       \o excerpt(Val(c.payload).content)
                                       \o <<"\"">>,
                                   "default"))
    /\ UNCHANGED <<props, open, isEditing, formValues, formDefaults, nCalls,
                   nEdits>>
    /\ Stale

\* the decimal digits of a natural number, as date-fns writes it
DigitChar(d) == <<"0", "1", "2", "3", "4", "5", "6", "7", "8", "9">>[d + 1]

RECURSIVE Digits(_)
Digits(n) == IF n < 10 THEN <<DigitChar(n)>> ELSE Append(Digits(n \div 10), DigitChar(n % 10))

\* String.prototype.toLowerCase, on the letters format() writes
toLowerCase(s) ==
    [i \in 1..Len(s) |->
        CASE s[i] = "A" -> "a" [] s[i] = "P" -> "p" [] s[i] = "M" -> "m"
          [] OTHER -> s[i]]

\* format(time, "h:mma, M/d") with the 24-hour token H in place of h
format24(time) ==
    Digits(time.hours)
        \o <<":">>
        \o (IF time.minutes < 10 THEN <<"0">> ELSE <<>>) \o Digits(time.minutes)
        \o (IF time.hours >= 12 THEN <<"P", "M">> ELSE <<"A", "M">>)
        \o <<",", " ">>
        \o Digits(time.month + 1)
        \o <<"/">>
        \o Digits(time.date)

\* format(time, "h:mma, M/d") of date-fns: h the hour of the 12-hour clock
\* (12 for 0), mm the minute on two digits, a AM or PM, M the month from 1,
\* d the day of the month
format(time) ==
    Digits(IF time.hours % 12 = 0 THEN 12 ELSE time.hours % 12)
        \o <<":">>
        \o (IF time.minutes < 10 THEN <<"0">> ELSE <<>>) \o Digits(time.minutes)
        \o (IF time.hours >= 12 THEN <<"P", "M">> ELSE <<"A", "M">>)
        \o <<",", " ">>
        \o Digits(time.month + 1)
        \o <<"/">>
        \o Digits(time.date)

\* const time = new Date(comment.created_at);
\* const formattedTime = format(time, "h:mma, M/d").toLowerCase();
formattedTime(comment) == toLowerCase(format(comment.created_at))

\* the comment cards on screen: {comments.map((comment) => <CommentCard ../>)}
\* in the details view
CardsShown ==
    IF component = "details" /\ DetailsView
    THEN {comments[i] : i \in 1..Len(comments)}
    ELSE {}

\* {userId == comment.author && <Button onClick={handleDelete}>Delete</Button>}
DeleteOffered(comment) ==
    /\ comment \in CardsShown
    /\ userId = comment.author

\* CommentCard.handleDelete up to its await:
\* supabase.from("comments").delete().eq("id", comment.id)
deleteComment(comment, confirm) ==
    /\ DeleteOffered(comment)
    /\ Issue(IF confirm
             THEN {Call(nCalls + 1, "comments.delete", Just(comment.id), Null)}
             ELSE {})
    /\ last' = Step("deleteComment", confirm, Null, Null)
    /\ UNCHANGED <<props, open, isEditing, formValues, formDefaults, commentInput,
                   nEdits>>
    /\ Stale

\* CommentCard.handleDelete after its await, without its router.refresh()
commentDeletedNoRefresh(c, error) ==
    /\ c \in pending
    /\ c.op = "comments.delete"
    /\ pending' = pending \ {c}
    /\ last' = Step("commentDeleted", TRUE, Just(c), error)
    /\ issued' = {}
    /\ refreshed' = FALSE
    /\ IF ~IsNull(error)
       THEN toast' = ErrorToast(Val(error))
       ELSE LET comment == CHOOSE x \in {comments[i] : i \in 1..Len(comments)} :
                               x.id = Val(c.eq)
            IN  toast' = Just(Toast("Comment Deleted",
                                    <<"Successfully deleted \"">>
                                        \o excerpt(comment.content)
                                        \o <<"\"">>,
                                    "default"))
    /\ UNCHANGED <<props, open, isEditing, formValues, formDefaults, commentInput,
                   nCalls, nEdits>>
    /\ Stale

\* CommentCard.handleDelete after its await
commentDeleted(c, error) ==
    /\ c \in pending
    /\ c.op = "comments.delete"
    /\ pending' = pending \ {c}
    /\ last' = Step("commentDeleted", TRUE, Just(c), error)
    /\ issued' = {}
    /\ IF ~IsNull(error)
       THEN /\ toast' = ErrorToast(Val(error))
            /\ refreshed' = FALSE
       ELSE /\ refreshed' = TRUE
            /\ LET comment == CHOOSE x \in {comments[i] : i \in 1..Len(comments)} :
                                  x.id = Val(c.eq)
               IN  toast' = Just(Toast("Comment Deleted",
                                       <<"Successfully deleted \"">>
                                           \o excerpt(comment.content)
                                           \o <<"\"">>,
                                       "default"))
    /\ UNCHANGED <<props, open, isEditing, formValues, formDefaults, commentInput,
                   nCalls, nEdits>>
    /\ Stale

Next ==
    \/ \E o \in BOOLEAN : handleOpenChange(o)
    \/ flipEditing
    \/ \E f \in FieldNames : \E x \in Typed[f] : onChange(f, x)
    \/ ClickSave
    \/ \E confirm \in BOOLEAN : handleCancel(confirm)
    \/ \E confirm \in BOOLEAN : ClickDeleteSpecies(confirm)
    \/ \E c \in pending : \E error \in Errors : onSaveChanges(c, error)
    \/ \E c \in pending : \E error \in Errors : handleDelete(c, error)
    \/ \E v \in TypedComments : commentChange(v)
    \/ ClickPost
    \/ \E c \in pending : \E error \in Errors : onPost(c, error)
    \/ \E i \in 1..Len(comments) : \E confirm \in BOOLEAN :
           deleteComment(comments[i], confirm)
    \/ \E c \in pending : \E error \in Errors : commentDeleted(c, error)

Spec == Init /\ [][Next]_vars

(***************************************************************************)
(* The comment field over a bounded family of strings: up to MaxPad        *)
(* blanks, a body, up to MaxPad blanks.  The bodies are the short ones and *)
(* the ones that bring the string, typed or trimmed, to either side of the *)
(* length limit; a body of three or more characters has a blank inside.    *)
(***************************************************************************)
Body(n) == [i \in 1..n |-> IF i = 2 /\ n >= 3 THEN " " ELSE "a"]

BodyLengths ==
    (0..(MaxOver + 1))
    \cup ((MaxCommentLen - 2 * MaxPad - 1)..(MaxCommentLen + MaxOver))

CommentStrings ==
    {Spaces(l) \o Body(n) \o Spaces(t) :
        l \in 0..MaxPad, t \in 0..MaxPad, n \in BodyLengths}

\* the details view of an opened dialog, with a string of the family typed
\* into the comment field
InitValidate ==
    /\ component = "details"
    /\ userId \in Users
    /\ species \in SpeciesRows
    /\ comments = CommentRows
    /\ open = TRUE
    /\ isEditing = FALSE
    /\ formValues = speciesDefaultValues(species)
    /\ formDefaults = speciesDefaultValues(species)
    /\ commentInput \in CommentStrings
    /\ pending = {}
    /\ stale = {}
    /\ nCalls = 0
    /\ nEdits = IF commentInput = commentDefaultValues.content THEN 0 ELSE 1
    /\ last = Step("commentChange", FALSE, Null, Null)
    /\ issued = {}
    /\ toast = Null
    /\ refreshed = FALSE
    /\ Served

NextValidate ==
    \/ ClickPost
    \/ \E c \in pending : \E error \in Errors : onPost(c, error)

SpecValidate == InitValidate /\ [][NextValidate]_vars

(***************************************************************************)
(* The states of the dialog.                                               *)
(***************************************************************************)
Closed == ~open

Viewing == open /\ ~isEditing

Editing == open /\ isEditing

Ops(calls) == {c.op : c \in calls}

\* the success notification a handler ends with
IsSuccessToast(t, title) ==
    /\ ~IsNull(t)
    /\ Val(t).title = title
    /\ Val(t).variant = "default"

\* the comment of the fetched list with this id
CommentById(id) ==
    CHOOSE x \in {comments[i] : i \in 1..Len(comments)} : x.id = id

(***************************************************************************)
(* C1.  Ownership gate: a user who is not the author of the species never  *)
(* has its dialog in Editing, is never offered the edit button and never   *)
(* has a delete of the species issued; a delete of a comment is only ever  *)
(* issued by the comment's author.                                         *)
(***************************************************************************)
C1_OwnershipGate ==
    /\ userId # species.author =>
           /\ ~Editing
           /\ ~EditOffered
           /\ "species.delete" \notin Ops(pending \cup issued)
    /\ \A c \in pending \cup issued :
           c.op = "comments.delete" => CommentById(Val(c.eq)).author = userId
    /\ \A i \in 1..Len(comments) :
           userId # comments[i].author => ~DeleteOffered(comments[i])

(***************************************************************************)
(* C2.  Every step that takes the dialog from Closed to open lands in      *)
(* Viewing, whatever the editing flag was.                                 *)
(***************************************************************************)
C2_OpenLandsInViewing == [][(~open /\ open') => ~isEditing']_vars

\* the dialog reopened (in Viewing) on top of an abandoned edit
C2_ReopenedAfterEdit ==
    /\ Viewing
    /\ last.h = "handleOpenChange"
    /\ formValues # formDefaults

(***************************************************************************)
(* C3.  A declined confirmation (cancel, delete species, delete comment)   *)
(* is a no-op: the click issues no adapter call, emits no notification,    *)
(* triggers no refresh and leaves the dialog and the forms as they were.   *)
(***************************************************************************)
C3_DeclineIsNoOp ==
    [][(/\ last'.h \in {"handleCancel", "ClickDeleteSpecies", "deleteComment"}
        /\ ~last'.confirm)
       => /\ issued' = {}
          /\ toast' = Null
          /\ ~refreshed'
          /\ UNCHANGED <<open, isEditing, formValues, formDefaults, commentInput,
                         pending>>]_vars

(***************************************************************************)
(* C4.  A confirmed cancel returns to Viewing, calls no adapter and        *)
(* discards the edits: the form's values are its last saved values again.  *)
(***************************************************************************)
C4_CancelDiscardsEdits ==
    (last.h = "handleCancel" /\ last.confirm)
    => /\ Viewing
       /\ issued = {}
       /\ formValues = formDefaults

(***************************************************************************)
(* C5.  A save that resolves with an error leaves the open flag, the       *)
(* editing flag, the form's values and its default values as they were,    *)
(* triggers no refresh and emits the failure notification.                 *)
(***************************************************************************)
C5_FailedSave ==
    [][(last'.h = "onSaveChanges" /\ ~IsNull(last'.error))
       => /\ UNCHANGED <<open, isEditing, formValues, formDefaults>>
          /\ ~refreshed'
          /\ issued' = {}
          /\ toast' = ErrorToast(Val(last'.error))]_vars

\* a save failed while the dialog was in Editing on edited values
C5_FailedWhileEditing ==
    /\ last.h = "onSaveChanges"
    /\ ~IsNull(last.error)
    /\ Editing
    /\ formValues # formDefaults

(***************************************************************************)
(* C6 as stated.  A save that resolves without error leaves the form at    *)
(* the submitted values and the dialog in Viewing, with a success          *)
(* notification, whatever happened while the call was pending.             *)
(***************************************************************************)
C6_SaveLandsInViewing ==
    (last.h = "onSaveChanges" /\ IsNull(last.error))
    => /\ formValues = Val(Val(last.call).payload)
       /\ Viewing
       /\ IsSuccessToast(toast, "Species Details Edited!")

(***************************************************************************)
(* C6 as amended.  A save carries the validated, normalized form values;   *)
(* when it resolves without error the form's values and default values are *)
(* exactly those, the editing flag is false, the open flag is as it was    *)
(* (Viewing if the dialog is open, Closed if it was closed meanwhile) and  *)
(* a success notification is emitted.                                      *)
(***************************************************************************)
C6_SaveResolved ==
    [][/\ \A c \in issued' :
              c.op = "species.update"
              => /\ Editing
                 /\ speciesSchema(formValues).ok
                 /\ c.payload = speciesSchema(formValues).value
       /\ (last'.h = "onSaveChanges" /\ IsNull(last'.error))
          => /\ formValues' = Val(Val(last'.call).payload)
             /\ formDefaults' = Val(Val(last'.call).payload)
             /\ ~isEditing'
             /\ open' = open
             /\ IsSuccessToast(toast', "Species Details Edited!")]_vars

\* a save of " b " succeeded after the dialog was closed: the form holds "b"
C6_SavedWhileClosed ==
    /\ last.h = "onSaveChanges"
    /\ IsNull(last.error)
    /\ Closed
    /\ formValues.scientific_name = <<"b">>
    /\ formDefaults = formValues

(***************************************************************************)
(* C7.  A delete of the species is issued only on a confirmed click.  When *)
(* it resolves without error the dialog is closed, a refresh is triggered, *)
(* a success notification is emitted and the props (the species, the       *)
(* comments) are not edited locally; when it resolves with an error the    *)
(* open flag and the editing flag are as they were, no refresh is          *)
(* triggered and the failure notification is emitted.                      *)
(***************************************************************************)
C7_SpeciesDelete ==
    [][/\ "species.delete" \in Ops(issued')
          => last'.h = "ClickDeleteSpecies" /\ last'.confirm
       /\ last'.h = "handleDelete"
          => /\ UNCHANGED <<species, comments, isEditing>>
             /\ IF IsNull(last'.error)
                THEN /\ ~open'
                     /\ refreshed'
                     /\ IsSuccessToast(toast', "Species Deleted")
                ELSE /\ open' = open
                     /\ ~refreshed'
                     /\ toast' = ErrorToast(Val(last'.error))]_vars

\* a delete succeeded and closed the dialog
C7_DeletedAndClosed ==
    /\ last.h = "handleDelete"
    /\ IsNull(last.error)
    /\ Closed
    /\ refreshed

(***************************************************************************)
(* C8.  One click issues at most one adapter call, of the kind the button  *)
(* names, and no other step (a resolution, a failure) issues any.          *)
(***************************************************************************)
C8_OneCallPerClick ==
    /\ Cardinality(issued) <= 1
    /\ \A c \in issued :
           c.op = CASE last.h = "ClickSave" -> "species.update"
                    [] last.h = "ClickDeleteSpecies" -> "species.delete"
                    [] last.h = "ClickPost" -> "comments.insert"
                    [] last.h = "deleteComment" -> "comments.delete"
                    [] OTHER -> "none"

(***************************************************************************)
(* C9.  A post whose content passes validation issues exactly one          *)
(* comments insert with the trimmed content, the user's id and the species *)
(* id; a post whose content fails validation issues nothing; the click     *)
(* leaves the input as typed.  On success the input is reset to empty, a   *)
(* refresh is triggered and a success notification is emitted; on failure  *)
(* the input is left as it is, no refresh is triggered and the failure     *)
(* notification is emitted.                                                *)
(***************************************************************************)
C9_PostComment ==
    [][/\ last'.h = "ClickPost"
          => /\ commentInput' = commentInput
             /\ ~refreshed'
             /\ toast' = Null
             /\ IF /\ Len(commentInput) >= 1
                   /\ Len(commentInput) <= MaxCommentLen
                   /\ trim(commentInput) # <<>>
                THEN issued' =
                         {Call(nCalls + 1, "comments.insert", Null,
                               Just([author  |-> userId,
                                     content |-> trim(commentInput),
                                     species |-> species.id]))}
                ELSE issued' = {} /\ pending' = pending
       /\ last'.h = "onPost"
          => /\ issued' = {}
             /\ IF IsNull(last'.error)
                THEN /\ commentInput' = <<>>
                     /\ refreshed'
                     /\ IsSuccessToast(toast', "Comment Posted!")
                ELSE /\ commentInput' = commentInput
                     /\ ~refreshed'
                     /\ toast' = ErrorToast(Val(last'.error))]_vars

\* " a " was posted as "a" by the user and the input is empty again
C9_PostedAndReset ==
    /\ last.h = "onPost"
    /\ IsNull(last.error)
    /\ Val(Val(last.call).payload) =
           [author |-> userId, content |-> <<"a">>, species |-> species.id]
    /\ commentInput = <<>>
    /\ refreshed

(***************************************************************************)
(* C10 as stated.  The comment schema accepts a content exactly when its   *)
(* length after trimming is between 1 and 150, and then yields the trimmed *)
(* content.                                                                *)
(***************************************************************************)
C10_BoundAfterTrim ==
    LET t == trim(commentInput)
    IN  last.h = "ClickPost"
        => /\ issued # {} <=> (Len(t) >= 1 /\ Len(t) <= MaxCommentLen)
           /\ \A c \in issued : Val(c.payload).content = t

(***************************************************************************)
(* C10 as amended.  The comment schema accepts a content exactly when its  *)
(* length as typed is between 1 and 150 and it is not blank; the accepted  *)
(* value is the content without its leading and trailing blanks.  The      *)
(* empty string raises the minimum-length error, every empty or blank      *)
(* string the emptiness error, and every string longer than 150 as typed   *)
(* the maximum-length error.  A post issues its insert exactly for the     *)
(* accepted contents.                                                      *)
(***************************************************************************)
C10_CommentValidation ==
    LET r == commentFormSchema(commentInput)
        n == Len(commentInput)
        blank == \A i \in 1..n : IsWhiteSpace(commentInput[i])
    IN  /\ r.ok <=> (n >= 1 /\ n <= MaxCommentLen /\ ~blank)
        /\ r.ok =>
               LET t == Val(r.value).content
               IN  /\ t # <<>>
                   /\ ~IsWhiteSpace(t[1])
                   /\ ~IsWhiteSpace(t[Len(t)])
                   /\ \E l \in 0..(n - Len(t)) :
                          commentInput = Spaces(l) \o t \o Spaces(n - Len(t) - l)
        /\ MsgMin \in r.issues <=> n = 0
        /\ MsgBlank \in r.issues <=> blank
        /\ MsgMax \in r.issues <=> n > MaxCommentLen
        /\ last.h = "ClickPost" => (issued # {} <=> r.ok)

\* a post of a content longer than the limit as typed, within it once
\* trimmed, was rejected
C10_RejectedForItsBlanks ==
    /\ last.h = "ClickPost"
    /\ Len(commentInput) > MaxCommentLen
    /\ Len(trim(commentInput)) >= 1
    /\ Len(trim(commentInput)) <= MaxCommentLen
    /\ issued = {}
    /\ nCalls = 0

(***************************************************************************)
(* The species form over a bounded family of field values: the owner has   *)
(* the edit view open with the family's values in the fields.              *)
(***************************************************************************)
SpeciesForms ==
    [scientific_name  : {<<"b">>, <<" ", "b", " ">>, <<" ">>},
     common_name      : {Null, Just(<<>>), Just(<<" ">>), Just(<<" ", "c">>)},
     kingdom          : {"Animalia"},
     total_population : {Null} \cup {Just(ToNumber(t)) :
                            t \in {<<>>, <<"2">>, <<"1", ".", "5">>}},
     image            : {Null, Just(<<>>), Just(<<" ">>), Just(<<"h", ":", "p">>),
                         Just(<<" ", "h", ":", "p", " ">>), Just(<<"h", "p">>)},
     description      : {Null, Just(<<>>), Just(<<"d", " ">>)}]

InitSpecies ==
    /\ component \in Components
    /\ species \in SpeciesRows
    /\ userId = species.author
    /\ comments = CommentRows
    /\ open = TRUE
    /\ isEditing = TRUE
    /\ formValues \in SpeciesForms
    /\ formDefaults = speciesDefaultValues(species)
    /\ commentInput = commentDefaultValues.content
    /\ pending = {}
    /\ stale = {}
    /\ nCalls = 0
    /\ nEdits = IF formValues = formDefaults THEN 0 ELSE 1
    /\ last = Step("onChange", FALSE, Null, Null)
    /\ issued = {}
    /\ toast = Null
    /\ refreshed = FALSE
    /\ Served

NextSpecies ==
    \/ ClickSave
    \/ \E c \in pending : \E error \in Errors : onSaveChanges(c, error)

SpecSpecies == InitSpecies /\ [][NextSpecies]_vars

\* a string with no blank at either end
IsTrimmed(s) == s = <<>> \/ (~IsWhiteSpace(s[1]) /\ ~IsWhiteSpace(s[Len(s)]))

\* an optional string field left empty or holding blanks only
IsBlank(v) == IsNull(v) \/ \A i \in 1..Len(Val(v)) : IsWhiteSpace(Val(v)[i])

\* the values of the required fields and of the population are acceptable,
\* and the image is empty, blank or a URL
ValidButForBlanks(values) ==
    /\ ~IsBlank(Just(values.scientific_name))
    /\ values.kingdom \in kingdoms
    /\ \/ IsNull(values.total_population)
       \/ /\ IsInteger(Val(values.total_population))
          /\ AtLeast(Val(values.total_population), 1)
    /\ IsBlank(values.image) \/ IsUrl(Val(values.image))

\* C11: a save of a form whose optional string fields (common_name, image,
\* description) are empty or blank is accepted, the update carries null for
\* each of them, and every string it carries is trimmed; an empty image
\* counts as no value, not as an invalid URL.
C11_BlankOptionalsAccepted ==
    (last.h = "ClickSave" /\ ValidButForBlanks(formValues))
        => \E c \in issued :
              /\ c.op = "species.update"
              /\ \A f \in {"common_name", "image", "description"} :
                    /\ IsBlank(formValues[f]) => IsNull(Val(c.payload)[f])
                    /\ ~IsNull(Val(c.payload)[f]) => IsTrimmed(Val(Val(c.payload)[f]))
              /\ IsTrimmed(Val(c.payload).scientific_name)

(***************************************************************************)
(* The population input: the owner has the edit view open on a species     *)
(* with or without a population and changes the text of the input.         *)
(***************************************************************************)
PopulationTexts == {<<>>, <<"0">>, <<"2">>, <<"-", "1">>, <<"1", ".", "5">>}

InitPopulation ==
    /\ component \in Components
    /\ species \in {[sp EXCEPT !.total_population = n] :
                       sp \in SpeciesRows, n \in {Null, Just(ToNumber(<<"2">>))}}
    /\ userId = species.author
    /\ comments = CommentRows
    /\ open = TRUE
    /\ isEditing = TRUE
    /\ formValues = speciesDefaultValues(species)
    /\ formDefaults = speciesDefaultValues(species)
    /\ commentInput = commentDefaultValues.content
    /\ pending = {}
    /\ stale = {}
    /\ nCalls = 0
    /\ nEdits = 0
    /\ last = Step("flipEditing", FALSE, Null, Null)
    /\ issued = {}
    /\ toast = Null
    /\ refreshed = FALSE
    /\ Served

NextPopulation ==
    \/ \E x \in PopulationTexts : onChange("total_population", x)
    \/ ClickSave
    \/ \E c \in pending : \E error \in Errors : onSaveChanges(c, error)

SpecPopulation == InitPopulation /\ [][NextPopulation]_vars

\* the user has just cleared the population input
PopulationCleared ==
    /\ last.h = "onChange"
    /\ Val(last.input)[1] = "total_population"
    /\ Val(last.input)[2] = <<>>

\* C12: a save is accepted (an update is issued) exactly when the population
\* is absent or an integer of at least 1; a population input the user leaves
\* or clears empty counts as absent and is accepted; no update carries a
\* population that is zero, negative or not an integer.
C12_PopulationGate ==
    [][/\ (last'.h = "ClickSave" /\ ValidButForBlanks([formValues EXCEPT
                                        !.total_population = Null]))
          => /\ (issued' # {}) <=>
                    \/ IsNull(formValues.total_population)
                    \/ /\ IsInteger(Val(formValues.total_population))
                       /\ AtLeast(Val(formValues.total_population), 1)
             /\ PopulationCleared => issued' # {}
             /\ IsNull(species.total_population) /\ nEdits = 0 => issued' # {}
       /\ \A c \in issued' :
             c.op = "species.update"
                 => \/ IsNull(Val(c.payload).total_population)
                    \/ /\ IsInteger(Val(Val(c.payload).total_population))
                       /\ AtLeast(Val(Val(c.payload).total_population), 1)
      ]_vars

\* the last step was the resolution of an adapter call
Resolved == last.h \in {"onSaveChanges", "handleDelete", "onPost", "commentDeleted"}

\* C13: a step refreshes the route exactly when it is the resolution of an
\* adapter call (species update, species delete, comment insert, comment
\* delete) that returned no error; a failed call, a rejected validation and a
\* declined confirmation refresh nothing; no step edits the species or the
\* comment list the dialog was handed.
C13_RefreshOnSuccess ==
    [][/\ refreshed' <=> (Resolved' /\ IsNull(last'.error))
       /\ UNCHANGED <<species, comments>>]_vars

\* a comment delete succeeded: the route is refreshed and the comment is
\* still in the list the dialog was handed
C13_DeletedCommentStillListed ==
    /\ last.h = "commentDeleted"
    /\ IsNull(last.error)
    /\ refreshed
    /\ \E i \in 1..Len(comments) : comments[i].id = Val(Val(last.call).eq)

\* C14: the resolution of an adapter call emits exactly one notification: a
\* destructive one whose description is the error message of the call,
\* unchanged, when the call returned an error, and the success notification
\* of the operation when it returned none.
C14_OneNotification ==
    Resolved
        => /\ ~IsNull(toast)
           /\ IF ~IsNull(last.error)
              THEN /\ Val(toast).variant = "destructive"
                   /\ Val(toast).description = <<Val(last.error)>>
              ELSE IsSuccessToast(toast,
                       CASE Val(last.call).op = "species.update" -> "Species Details Edited!"
                         [] Val(last.call).op = "species.delete" -> "Species Deleted"
                         [] Val(last.call).op = "comments.insert" -> "Comment Posted!"
                         [] Val(last.call).op = "comments.delete" -> "Comment Deleted")

\* a comment delete failed with a time-out and the notification says so
C14_DeleteFailureShown ==
    /\ last.h = "commentDeleted"
    /\ last.error = Just("timeout")
    /\ Val(toast).description = <<"timeout">>
    /\ ~refreshed

(***************************************************************************)
(* A request for the species page, over a bounded family of sessions and   *)
(* of answers of the record store: the species in descending id, or no     *)
(* data; up to MaxComments comments in descending created_at, each of      *)
(* species 7, 5 or of a species that is not fetched, or no data.           *)
(***************************************************************************)
FetchedIds == {5, 7}

SpeciesRow(id) == [(CHOOSE sp \in SpeciesRows : TRUE) EXCEPT !.id = id]

SpeciesLists ==
    {[i \in 1..Len(ids) |-> SpeciesRow(ids[i])] :
        ids \in {s \in UNION {[1..n -> FetchedIds] : n \in 0..Cardinality(FetchedIds)} :
                    \A i, j \in 1..Len(s) : i < j => s[i] > s[j]}}

CommentLists ==
    {[i \in 1..Len(of) |->
         [id |-> Len(of) + 1 - i, created_at |-> Date(5, Len(of) + 1 - i, 15, 45),
          content |-> <<"h", "i">>, author |-> "u1", species |-> of[i]]] :
        of \in UNION {[1..n -> FetchedIds \cup {3}] : n \in 0..MaxComments}}

\* the variables of the dialog
dialog ==
    <<component, userId, species, comments, open, isEditing, formValues,
      formDefaults, commentInput, pending, nCalls, nEdits, last, issued, toast,
      refreshed, stale>>

\* no dialog is mounted before the page has rendered
Unmounted ==
    /\ component = "details"
    /\ userId = "u1"
    /\ species \in SpeciesRows
    /\ comments = CommentRows
    /\ open = FALSE
    /\ isEditing = FALSE
    /\ formValues = speciesDefaultValues(species)
    /\ formDefaults = speciesDefaultValues(species)
    /\ commentInput = commentDefaultValues.content
    /\ pending = {}
    /\ stale = {}
    /\ nCalls = 0
    /\ nEdits = 0
    /\ last = Step("init", FALSE, Null, Null)
    /\ issued = {}
    /\ toast = Null
    /\ refreshed = FALSE

InitPage ==
    /\ Unmounted
    /\ session \in {Null} \cup {Just(Session(u)) : u \in Users}
    /\ store \in [species  : {Null} \cup {Just(l) : l \in SpeciesLists},
                  comments : {Null} \cup {Just(l) : l \in CommentLists}]
    /\ page = PageStart

\* SpeciesList up to its first await: supabase.auth.getSession()
SpeciesList ==
    /\ page.pc = "start"
    /\ page' = [page EXCEPT !.pc = "getSession"]
    /\ UNCHANGED <<dialog, session, store>>

\* the session check without its redirect
gotSessionNoRedirect ==
    /\ page.pc = "getSession"
    /\ page' = [page EXCEPT
                   !.pc = "species",
                   !.sessionId = IF IsNull(session) THEN Just("")
                                 ELSE Just(Val(session).user.id),
                   !.queries = Append(@, "species")]
    /\ UNCHANGED <<dialog, session, store>>

\* from the session to the second await: redirect("/") throws when there is
\* no session; otherwise sessionId is read and the species query is sent
gotSession ==
    /\ page.pc = "getSession"
    /\ IF IsNull(session)
       THEN page' = [page EXCEPT !.pc = "redirected", !.redirect = Just("/")]
       ELSE page' = [page EXCEPT
                        !.pc = "species",
                        !.sessionId = Just(Val(session).user.id),
                        !.queries = Append(@, "species")]
    /\ UNCHANGED <<dialog, session, store>>

\* from the species to the third await: the comments query is sent
gotSpecies ==
    /\ page.pc = "species"
    /\ page' = [page EXCEPT
                   !.pc = "comments",
                   !.species = store.species,
                   !.queries = Append(@, "comments")]
    /\ UNCHANGED <<dialog, session, store>>

\* from the comments to the return of the rendered list
gotComments ==
    /\ page.pc = "comments"
    /\ page' = [page EXCEPT
                   !.pc = "done",
                   !.commentsWithNames = store.comments,
                   !.cards = Just(SpeciesCards(Val(page.sessionId), page.species,
                                               store.comments))]
    /\ UNCHANGED <<dialog, session, store>>

NextPage ==
    \/ SpeciesList
    \/ gotSession
    \/ gotSpecies
    \/ gotComments

SpecPage == InitPage /\ [][NextPage]_vars

\* the comments the record store answered with; none when the fetch failed
FetchedComments == IF IsNull(store.comments) THEN <<>> ELSE Val(store.comments)

\* the positions of the fetched comments whose species is id
Matching(id) ==
    {j \in 1..Len(FetchedComments) : FetchedComments[j].species = id}

\* C15: the rendered list has one card per fetched species, in the fetched
\* order; the comments of a card are exactly the fetched comments whose
\* species is the card's, in their fetched order; a fetched comment is under
\* at most one card, and under none when no fetched species matches it; a
\* species without a matching comment, and every species when the comment
\* fetch failed, has an empty list.
C15_CommentPartition ==
    page.pc = "done"
        => LET cards == Val(page.cards)
               rows  == IF IsNull(store.species) THEN <<>> ELSE Val(store.species)
           IN  /\ Len(cards) = Len(rows)
               /\ \A i \in 1..Len(cards) :
                     /\ cards[i].species = rows[i]
                     /\ Len(cards[i].comments) = Cardinality(Matching(rows[i].id))
                     /\ \A j \in Matching(rows[i].id) :
                           cards[i].comments[Cardinality(
                               {k \in Matching(rows[i].id) : k <= j})]
                               = FetchedComments[j]
               /\ \A j \in 1..Len(FetchedComments) :
                     LET under == {i \in 1..Len(cards) :
                                      \E k \in 1..Len(cards[i].comments) :
                                          cards[i].comments[k] = FetchedComments[j]}
                     IN  /\ Cardinality(under) <= 1
                         /\ (\A i \in 1..Len(rows) :
                                 rows[i].id # FetchedComments[j].species)
                                => under = {}

\* a list of two species was rendered from three comments: the first and
\* the last of species 7, the one between them of a species not fetched
C15_InterleavedComments ==
    /\ page.pc = "done"
    /\ Len(Val(page.cards)) = 2
    /\ Len(FetchedComments) = 3
    /\ [j \in 1..3 |-> FetchedComments[j].species] = <<7, 3, 7>>
    /\ Len(Val(page.cards)[1].comments) = 2
    /\ Val(page.cards)[2].comments = <<>>

\* C16: the run of the page queries the record store and renders the list
\* only for a request with a session; without one it ends in a redirect to
\* "/" with no query sent, nothing fetched and no list rendered, and with
\* one it ends in the rendered list.
C16_SessionGate ==
    /\ (page.queries # <<>> \/ ~IsNull(page.cards)) => ~IsNull(session)
    /\ page.pc \in {"redirected", "done"}
          => IF IsNull(session)
             THEN /\ page.redirect = Just("/")
                  /\ page.queries = <<>>
                  /\ IsNull(page.species) /\ IsNull(page.commentsWithNames)
                  /\ IsNull(page.cards)
             ELSE /\ page.pc = "done"
                  /\ IsNull(page.redirect)
                  /\ page.queries = <<"species", "comments">>
                  /\ ~IsNull(page.cards)

\* a request without a session was redirected while the record store had
\* species and comments to answer with
C16_Redirected ==
    /\ IsNull(session)
    /\ page.pc = "redirected"
    /\ ~IsNull(store.species) /\ Len(Val(store.species)) = 2
    /\ Len(FetchedComments) = 3

(***************************************************************************)
(* The comment cards of a dialog whose first comment was created at a time *)
(* of a bounded family: every hour of the day, minutes below and above     *)
(* ten, months and days of one and of two digits.                          *)
(***************************************************************************)
CreationTimes ==
    {Date(md[1], md[2], hours, minutes) :
        md \in {<<5, 2>>, <<0, 1>>, <<11, 31>>, <<9, 10>>},
        hours \in 0..23, minutes \in {0, 5, 45, 59}}

InitCard ==
    /\ component = "details"
    /\ userId \in Users
    /\ species \in SpeciesRows
    /\ comments \in {[CommentRows EXCEPT ![1].created_at = time] :
                        time \in CreationTimes}
    /\ open = FALSE
    /\ isEditing = FALSE
    /\ formValues = speciesDefaultValues(species)
    /\ formDefaults = speciesDefaultValues(species)
    /\ commentInput = commentDefaultValues.content
    /\ pending = {}
    /\ stale = {}
    /\ nCalls = 0
    /\ nEdits = 0
    /\ last = Step("init", FALSE, Null, Null)
    /\ issued = {}
    /\ toast = Null
    /\ refreshed = FALSE
    /\ Served

NextCard == \E o \in BOOLEAN : handleOpenChange(o)

SpecCard == InitCard /\ [][NextCard]_vars

\* text is the decimal writing of n, without a leading zero
Writes(text, n) ==
    /\ text # <<>>
    /\ \A i \in 1..Len(text) :
          text[i] \in {"0", "1", "2", "3", "4", "5", "6", "7", "8", "9"}
    /\ Len(text) > 1 => text[1] # "0"
    /\ DigitsValue(text) = n

\* C17: the time a comment card shows is the hour of the 12-hour clock
\* without a leading zero (12 for the hours 0 and 12), ":", the minute on
\* two digits, "am" or "pm" in lower case, ", ", the month, "/" and the day
\* of the month, both without a leading zero; 15:45 on June 2 shows as
\* "3:45pm, 6/2".
C17_CommentTime ==
    \A comment \in CardsShown :
        LET t     == formattedTime(comment)
            time  == comment.created_at
            colon == Min({i \in 1..Len(t) : t[i] = ":"})
            slash == Min({i \in 1..Len(t) : t[i] = "/"})
        IN  /\ Writes(SubSeq(t, 1, colon - 1),
                      IF time.hours \in {0, 12} THEN 12
                      ELSE IF time.hours > 12 THEN time.hours - 12 ELSE time.hours)
            /\ Writes(<<t[colon + 1]>>, time.minutes \div 10)
            /\ Writes(<<t[colon + 2]>>, time.minutes % 10)
            /\ SubSeq(t, colon + 3, colon + 6)
                   = (IF time.hours < 12 THEN <<"a">> ELSE <<"p">>) \o <<"m", ",", " ">>
            /\ Writes(SubSeq(t, colon + 7, slash - 1), time.month + 1)
            /\ Writes(SubSeq(t, slash + 1, Len(t)), time.date)
            /\ time = Date(5, 2, 15, 45)
                  => t = <<"3", ":", "4", "5", "p", "m", ",", " ", "6", "/", "2">>

\* the open dialog shows a comment created at 0:05 on December 31
C17_MidnightShown ==
    \E comment \in CardsShown : comment.created_at = Date(11, 31, 0, 5)

\* C18: no step changes the id or the author of the species; every update
\* a step issues carries the six fields of the form and nothing else, and
\* is addressed to the row whose id is the id of the dialog's species.
C18_UpdateFrame ==
    [][/\ species'.id = species.id
       /\ species'.author = species.author
       /\ \A c \in issued' :
             c.op = "species.update"
                 => /\ DOMAIN Val(c.payload) = FieldNames
                    /\ c.eq = Just(species.id)]_vars

\* a save has issued an update that renames the species
C18_RenameIssued ==
    /\ last.h = "ClickSave"
    /\ \E c \in issued :
          /\ c.op = "species.update"
          /\ Val(c.payload).scientific_name # species.scientific_name

\* C19: whenever the dialog is closed the editing flag is false, also after
\* a successful species delete and after a close issued while a save or a
\* delete is pending.
C19_ClosedNotEditing == Closed => ~isEditing

\* C19 (amended): the dialog starts closed with the editing flag false; a
\* close or an open by the user leaves the flag false, also with a save or
\* a delete pending; the only step that leaves the dialog closed with the
\* flag set is a successful species delete resolving in Editing, after which
\* the flag stays set while the dialog stays closed.
C19_ClosedEditingOnlyByDelete ==
    [][/\ last.h = "init" => (Closed /\ ~isEditing)
       /\ last'.h = "handleOpenChange" => ~isEditing'
       /\ (Closed' /\ isEditing')
             => \/ Closed /\ isEditing
                \/ /\ Editing
                   /\ last'.h = "handleDelete"
                   /\ IsNull(last'.error)]_vars

\* a species delete has succeeded from Editing: the dialog is closed and the
\* editing flag is still set
C19_DeletedFromEditing ==
    /\ last.h = "handleDelete"
    /\ IsNull(last.error)
    /\ Closed
    /\ isEditing

\* C20: a save that resolves, with or without an error, after the user has
\* left the Editing session that issued it, entered Editing again and
\* changed a field, leaves the dialog in Editing and the values in the form
\* untouched.
C20_LateSaveIsolated ==
    [][(/\ last.h = "onChange"
        /\ Editing
        /\ last'.h = "onSaveChanges"
        /\ Val(last'.call).callNo \in stale)
           => /\ Editing'
              /\ formValues' = formValues]_vars

\* C20 (amended): a save that resolves after the user has left the Editing
\* session that issued it and entered Editing again leaves the dialog in
\* Editing and the form untouched only when it resolves with an error; when
\* it succeeds the dialog drops to Viewing and the values and the defaults
\* of the form become those of the earlier save.
C20_LateSave ==
    [][(/\ Editing
        /\ last'.h = "onSaveChanges"
        /\ Val(last'.call).callNo \in stale)
           => IF ~IsNull(last'.error)
              THEN /\ Editing'
                   /\ UNCHANGED <<formValues, formDefaults>>
              ELSE /\ Viewing'
                   /\ formValues' = Val(Val(last'.call).payload)
                   /\ formDefaults' = Val(Val(last'.call).payload)]_vars

\* a save issued in an earlier Editing session has succeeded after an edit
\* of a later one: the dialog is in Viewing and the form holds the values of
\* the save
C20_LateSuccess ==
    /\ last.h = "onSaveChanges"
    /\ IsNull(last.error)
    /\ Val(last.call).callNo \in stale
    /\ Viewing
    /\ nEdits > 0
    /\ formValues = speciesSchema(speciesDefaultValues(species)).value[1]

=============================================================================
